---- MODULE Spec2Model ----
(***************************************************************************)
(* Model of the two interactive pendulum viewers                           *)
(*   src/InteractiveSimplePendulum.py                                      *)
(*   src/DoublePendulum/InteractiveDoublePendulum.py                       *)
(* and of the denominator of the double-pendulum dynamics in               *)
(*   src/DoublePendulum/DoublePendulum.py (export script) and the viewer.  *)
(*                                                                         *)
(* Parameter values are exact rationals with denominator slider_width:     *)
(* the integer v stands for v / 300, so 1.0 is 300 and 0.01 is 3.  A       *)
(* pointer-move maps (mouse_x - slider.x) / slider.width * scale, which is *)
(* the integer (mouse_x - slider.x) * scale in these units.                *)
(*                                                                         *)
(* One pass of the while loop handles any number of events and then draws, *)
(* so the handlers and the draw step interleave freely.  The QUIT handler, *)
(* which only ends the loop, is left out.  solve_ivp is a library call:    *)
(* its result is the parameters it read and the number of samples it       *)
(* returned, which is below len(t_eval) exactly when it reports failure.   *)
(***************************************************************************)
EXTENDS Integers, Sequences, FiniteSets, TLC

VARIABLES viewer, params, dragging, frame, sol, pos, pc, ev, dyn

vars == <<viewer, params, dragging, frame, sol, pos, pc, ev, dyn>>

viewerVars == <<viewer, params, dragging, frame, sol, pos, pc, ev>>

(* ------------------------------ bounds ------------------------------ *)

\* len(t_eval): 1000 (double viewer) and 500 (simple viewer) in the source.
NSamples == 3

\* cap on the number of pointer-moves that are followed while dragging
MaxMoves == 2

\* masses and first length of the dynamics evaluation range over 1..MaxParam
MaxParam == 2

\* l2 of the dynamics evaluation ranges over the squares of 1..MaxRoot
MaxRoot == 2

(* --------------------------- program constants ---------------------- *)

slider_width == 300
slider_height == 20
slider_x1 == 50
slider_x2 == 450
slider_y_start == 650
slider_spacing == 50

\* 1.0 in units of 1/300: the initial masses and lengths
One == 300
\* np.clip bounds: 0.01 and 10.0 (masses, lengths), 0.0 and 1.0 (damping)
MinMassLen == 3
MaxMassLen == 3000
MinDamping == 0
MaxDamping == 300

\* a global name that no assignment has bound yet (c of the simple viewer)
Unbound == -1

None == "None"

Viewers == {"simple", "double"}

\* the sliders, in the order of the elif chain of MOUSEBUTTONDOWN
SliderOrder(v) ==
    IF v = "double" THEN <<"m1", "l1", "c1", "m2", "l2", "c2">>
    ELSE <<"m", "l", "b">>

Controls(v) == {SliderOrder(v)[i] : i \in 1..Len(SliderOrder(v))}

\* pygame.Rect(x, y, w, h) of each slider
Slider(k) ==
    [x |-> IF k \in {"m2", "l2", "c2"} THEN slider_x2 ELSE slider_x1,
     y |-> IF k \in {"m1", "m2", "m"} THEN slider_y_start
           ELSE IF k \in {"l1", "l2", "l"} THEN slider_y_start + slider_spacing
           ELSE slider_y_start + 2 * slider_spacing,
     width |-> slider_width,
     height |-> slider_height]

\* Rect.collidepoint
collidepoint(r, p) ==
    /\ r.x <= p[1] /\ p[1] < r.x + r.width
    /\ r.y <= p[2] /\ p[2] < r.y + r.height

\* positions the pointer events carry: one inside each slider of either column,
\* and one above every slider, at the left edge of the first column
MousePos ==
    {<<50, 100>>,
     <<200, 650>>, <<200, 700>>, <<200, 750>>,
     <<710, 650>>, <<710, 700>>, <<710, 750>>}
MouseXs == {p[1] : p \in MousePos}

IsDamping(k) == k \in {"c1", "c2", "b"}

\* the factor of the mapped value: * 5.0 (double), * 10.0 (simple), * 1.0 (damping)
Scale(v, k) == IF IsDamping(k) THEN 1 ELSE IF v = "double" THEN 5 ELSE 10

\* the bounds handed to np.clip, which are also those handed to draw_slider
MinVal(k) == IF IsDamping(k) THEN MinDamping ELSE MinMassLen
MaxVal(k) == IF IsDamping(k) THEN MaxDamping ELSE MaxMassLen

\* (mouse_x - slider.x) / slider.width * scale
Mapped(v, k, mouse_x) == (mouse_x - Slider(k).x) * Scale(v, k)

\* a clip that forgets the lower bound
Clip_NoLowerBound(a, lo, hi) == IF a > hi THEN hi ELSE a

\* np.clip(a, a_min, a_max)
Clip(a, lo, hi) == IF a < lo THEN lo ELSE IF a > hi THEN hi ELSE a

\* a pointer-move whose l1 branch assigns l2 (and whose l branch assigns m)
MotionTarget_Neighbour(v, k) ==
    IF k = "l1" THEN "l2" ELSE IF k = "l" THEN "m"
    ELSE IF v = "simple" /\ k = "b" THEN "c" ELSE k

\* the global a pointer-move assigns while slider k is dragged
MotionTarget(v, k) == IF v = "simple" /\ k = "b" THEN "c" ELSE k

\* the globals the dynamics function reads, and the one draw_slider shows for k
DynamicsReads(v) == Controls(v)
Displayed(v, k) == k

InitialParams(v) ==
    IF v = "double"
    THEN [m1 |-> One, m2 |-> One, l1 |-> One, l2 |-> One, c1 |-> 0, c2 |-> 0]
    ELSE [m |-> One, l |-> One, b |-> 0, c |-> Unbound]

\* what the dynamics function sees of the globals during a solve
Snapshot(v, ps) == [k \in DynamicsReads(v) |-> ps[k]]

\* solve_ivp(f, t_span, y0, t_eval=t_eval): all NSamples samples on success,
\* the samples reached so far (at least the one at t0) on failure
SolveIvp(v, ps) ==
    {[ps |-> Snapshot(v, ps), n |-> k, success |-> (k = NSamples)] : k \in 1..NSamples}

Lengths(v) == IF v = "double" THEN {"l1", "l2"} ELSE {"l"}

\* x1, y1 (, x2, y2): the lengths times sin / cos of sol.y
Positions(v, ps, s) == [len |-> [k \in Lengths(v) |-> ps[k]], theta |-> s]

\* len(x1)
ArrayLen(p) == p.theta.n

\* the handler that ran last: its kind, the value of dragging it found (pointer-up
\* and pointer-move), the mouse_x of a pointer-move, the number of
\* update_simulation calls it made, and the pointer-moves applied so far
Event(kind, drag, x, calls, moves) ==
    [kind |-> kind, drag |-> drag, x |-> x, calls |-> calls, moves |-> moves]

IdleDyn == [m1 |-> 1, m2 |-> 1, l1 |-> 1, l2 |-> 1, theta1 |-> 0, theta2 |-> 0,
            export |-> 0, interactive |-> 0, done |-> {}]

InitViewer(v) ==
    /\ viewer = v
    /\ params = InitialParams(v)
    /\ dragging = None
    /\ frame = 0
    /\ \E s \in SolveIvp(v, InitialParams(v)) :
          /\ s.success
          /\ sol = s
          /\ pos = Positions(v, InitialParams(v), s)
    /\ pc = "loop"
    /\ ev = Event("start", None, 0, 0, 0)

Init ==
    /\ \E v \in Viewers : InitViewer(v)
    /\ dyn = IdleDyn

\* the while loop is running: no exception has ended the program
Alive == pc = "loop"

\* the first slider of the elif chain that contains the position, else no change
HitSlider(v, p, old) ==
    LET order == SliderOrder(v)
        hits == {i \in 1..Len(order) : collidepoint(Slider(order[i]), p)}
    IN IF hits = {} THEN old
       ELSE order[CHOOSE i \in hits : \A j \in hits : i <= j]

MouseButtonDown(p) ==
    /\ Alive
    /\ dragging' = HitSlider(viewer, p, dragging)
    /\ ev' = Event("down", None, 0, 0, ev.moves)
    /\ UNCHANGED <<viewer, params, frame, sol, pos, pc, dyn>>

\* an update_simulation that forgets frame = 0
update_simulation_KeepsFrame(s) ==
    /\ sol' = s
    /\ pos' = Positions(viewer, params, s)
    /\ frame' = frame

update_simulation(s) ==
    /\ sol' = s
    /\ pos' = Positions(viewer, params, s)
    /\ frame' = 0

MouseButtonUp ==
    /\ Alive
    /\ dragging' = None
    /\ \E s \in SolveIvp(viewer, params) : update_simulation(s)
    /\ ev' = Event("up", dragging, 0, 1, ev.moves)
    /\ UNCHANGED <<viewer, params, pc, dyn>>

MouseMotion(mouse_x) ==
    /\ Alive
    /\ IF dragging # None
       THEN /\ ev.moves < MaxMoves
            /\ params' = [params EXCEPT ![MotionTarget(viewer, dragging)] =
                             Clip(Mapped(viewer, dragging, mouse_x),
                                  MinVal(dragging), MaxVal(dragging))]
            /\ ev' = Event("motion", dragging, mouse_x, 0, ev.moves + 1)
       ELSE /\ params' = params
            /\ ev' = Event("motion", None, mouse_x, 0, ev.moves)
    /\ UNCHANGED <<viewer, dragging, frame, sol, pos, pc, dyn>>

\* a draw step that holds the frame at the last sample
Draw_HoldsAtLast ==
    /\ Alive
    /\ ev' = Event("draw", None, 0, 0, ev.moves)
    /\ IF frame < NSamples
       THEN IF frame < ArrayLen(pos)
            THEN /\ frame' = IF frame < NSamples - 1 THEN frame + 1 ELSE frame
                 /\ pc' = pc
            ELSE /\ frame' = frame
                 /\ pc' = "crashed"
       ELSE /\ frame' = frame
            /\ pc' = pc
    /\ UNCHANGED <<viewer, params, dragging, sol, pos, dyn>>

\* a draw step that advances the frame only while nothing is dragged
Draw_FrozenWhileDragging ==
    /\ Alive
    /\ ev' = Event("draw", None, 0, 0, ev.moves)
    /\ IF frame < NSamples
       THEN IF frame < ArrayLen(pos)
            THEN /\ frame' = IF dragging = None THEN frame + 1 ELSE frame
                 /\ pc' = pc
            ELSE /\ frame' = frame
                 /\ pc' = "crashed"
       ELSE /\ frame' = frame
            /\ pc' = pc
    /\ UNCHANGED <<viewer, params, dragging, sol, pos, dyn>>

\* the rest of one pass of the while loop: draw the pendulum at x1[frame], y1[frame]
\* (an IndexError ends the program) and advance the frame
Draw ==
    /\ Alive
    /\ ev' = Event("draw", None, 0, 0, ev.moves)
    /\ IF frame < NSamples
       THEN IF frame < ArrayLen(pos)
            THEN /\ frame' = frame + 1
                 /\ pc' = pc
            ELSE /\ frame' = frame
                 /\ pc' = "crashed"
       ELSE /\ frame' = frame
            /\ pc' = pc
    /\ UNCHANGED <<viewer, params, dragging, sol, pos, dyn>>

Next ==
    \/ \E p \in MousePos : MouseButtonDown(p)
    \/ MouseButtonUp
    \/ \E x \in MouseXs : MouseMotion(x)
    \/ Draw

Spec == Init /\ [][Next]_vars

(* ------------- the denominator of the double-pendulum dynamics ------------- *)
(* Masses and lengths are integers here and angles are quarter turns, where    *)
(* the cosine is exact; l2 is a perfect square, where np.sqrt is exact.        *)

\* np.cos at k quarter turns
Cos(k) == IF k % 4 = 0 THEN 1 ELSE IF k % 4 = 2 THEN -1 ELSE 0

\* np.power(x, 2)
Power2(x) == x * x

\* np.sqrt on a perfect square
Sqrt(x) == CHOOSE r \in 0..x : r * r = x

\* DoublePendulum.py: denominator of DoubleDampedPendulum
DenominatorExport(m1, m2, l1, l2, theta1, theta2) ==
    LET deltatheta == theta1 - theta2
    IN ((m1 + m2) * Power2(l1) * m2 * Sqrt(l2)) - Power2(m2 * l1 * l2 * Cos(deltatheta))

\* InteractiveDoublePendulum.py: denominator of DoubleDampedPendulum
DenominatorInteractive(m1, m2, l1, l2, theta1, theta2) ==
    LET deltatheta == theta1 - theta2
    IN ((m1 + m2) * Power2(l1) * m2 * Power2(l2)) - Power2(m2 * l1 * l2 * Cos(deltatheta))

InitDyn ==
    /\ InitViewer("double")
    /\ dyn \in [m1 : 1..MaxParam, m2 : 1..MaxParam, l1 : 1..MaxParam,
                 l2 : {r * r : r \in 1..MaxRoot}, theta1 : 0..3, theta2 : 0..3,
                 export : {0}, interactive : {0}, done : {{}}]

\* one evaluation of the export script's dynamics function
EvalExport ==
    /\ "export" \notin dyn.done
    /\ dyn' = [dyn EXCEPT
                 !.export = DenominatorExport(dyn.m1, dyn.m2, dyn.l1, dyn.l2,
                                              dyn.theta1, dyn.theta2),
                 !.done = @ \cup {"export"}]
    /\ UNCHANGED viewerVars

\* one evaluation of the interactive viewer's dynamics function
EvalInteractive ==
    /\ "interactive" \notin dyn.done
    /\ dyn' = [dyn EXCEPT
                 !.interactive = DenominatorInteractive(dyn.m1, dyn.m2, dyn.l1, dyn.l2,
                                                        dyn.theta1, dyn.theta2),
                 !.done = @ \cup {"interactive"}]
    /\ UNCHANGED viewerVars

NextDyn ==
    \/ EvalExport
    \/ EvalInteractive

SpecDyn == InitDyn /\ [][NextDyn]_vars

(* ================================ claims ================================ *)

MassesAndLengths(v) == {k \in Controls(v) : ~IsDamping(k)}

\* a step that is a pointer-move while slider k is dragged
DragMove == ev'.kind = "motion" /\ dragging # None

\* C1: every pointer-up that ends a drag makes exactly one update_simulation
\* call; the solve reads the parameters as they are at the release, and when it
\* has completed the frame index is 0 and the position arrays are those computed
\* from that solve.
C1_ReleaseSolvesOnce ==
    [][(ev'.kind = "up" /\ dragging # None) =>
          /\ ev'.calls = 1
          /\ params' = params
          /\ sol' \in SolveIvp(viewer, params)
          /\ \A k \in DynamicsReads(viewer) : sol'.ps[k] = params[k]
          /\ frame' = 0
          /\ pos' = Positions(viewer, params, sol')
          /\ dragging' = None]_vars

\* C1 witness: m1 was dragged to 0.01 and then to 10.0 and released; the solve
\* that followed read 10.0, and the frame index is 0.
C1_Witness ==
    /\ viewer = "double"
    /\ ev.kind = "up" /\ ev.drag = "m1" /\ ev.moves = 2
    /\ params["m1"] = MaxMassLen
    /\ sol.ps["m1"] = MaxMassLen
    /\ pos.theta = sol
    /\ frame = 0

\* C2 (as stated, on complete trajectories): the frame index is in
\* 0..(trajectory length - 1) in every reachable state.
C2_FrameBelowLength ==
    sol.success => frame \in 0..(ArrayLen(pos) - 1)

\* C2 (amended): the frame index is in 0..len(t_eval) in every reachable state; a
\* tick increases it by exactly 1 while it is below len(t_eval) and the position
\* arrays hold that sample, and leaves it unchanged otherwise; it decreases only
\* by a pointer-up, which sets it to 0.
C2_FrameUpToLength ==
    /\ [](frame \in 0..NSamples)
    /\ [][ev'.kind = "draw" =>
             frame' = IF frame < NSamples /\ frame < ArrayLen(pos)
                      THEN frame + 1 ELSE frame]_vars
    /\ [][frame' < frame => (ev'.kind = "up" /\ frame' = 0)]_vars

\* C2 witness: playback of a complete trajectory has run one past the last
\* sample, where a further tick has drawn nothing and left the frame index.
C2_Witness ==
    /\ ev.kind = "draw"
    /\ sol.success
    /\ ArrayLen(pos) = NSamples
    /\ frame = NSamples
    /\ pc = "loop"

\* C3 (as stated): while a parameter is being dragged no tick changes the frame
\* index.
C3_FrameFrozenWhileDragging ==
    [][(dragging # None /\ ev'.kind = "draw") => frame' = frame]_vars

\* C3 (amended): while a parameter is being dragged the pointer-down and
\* pointer-move handlers leave the frame index unchanged, and every tick advances
\* it exactly as it does when nothing is dragged: by 1 while it is below
\* len(t_eval) and the position arrays hold that sample.
C3_PlaybackGoesOnWhileDragging ==
    /\ [][(dragging # None /\ ev'.kind \in {"down", "motion"}) => frame' = frame]_vars
    /\ [][(dragging # None /\ ev'.kind = "draw"
             /\ frame < NSamples /\ frame < ArrayLen(pos)) => frame' = frame + 1]_vars

\* C3 witness: a tick during a drag has just advanced the frame index.
C3_Witness ==
    /\ ev.kind = "draw"
    /\ dragging # None
    /\ ev.moves >= 1
    /\ pc = "loop"
    /\ frame \in 1..(NSamples - 1)

\* C4: after a pointer-move while a control is dragged, the parameter that the
\* dynamics reads and the slider displays for that control is
\* clamp(mapped-value, min, max) of that control.
C4_MoveSetsDraggedParameter ==
    (ev.kind = "motion" /\ ev.drag # None) =>
        /\ ev.drag \in DynamicsReads(viewer)
        /\ params[Displayed(viewer, ev.drag)] =
              Clip(Mapped(viewer, ev.drag, ev.x), MinVal(ev.drag), MaxVal(ev.drag))

\* C5 (as stated): a pointer-move whose mapped value is 0 or negative for a mass
\* or a length leaves that parameter at the value it had before the edit.
C5_OutOfDomainEditRejected ==
    [][(DragMove /\ dragging \in MassesAndLengths(viewer)
          /\ Mapped(viewer, dragging, ev'.x) <= 0) =>
             params'[dragging] = params[dragging]]_vars

\* C5 (amended): a pointer-move whose mapped value is 0 or negative for a mass
\* or a length sets that parameter to the minimum of the control, 0.01, whatever
\* it was before; every mass and length that a solve has read is within
\* 0.01..10.0.
C5_OutOfDomainEditClamped ==
    /\ [][(DragMove /\ dragging \in MassesAndLengths(viewer)
             /\ Mapped(viewer, dragging, ev'.x) <= 0) =>
                params'[dragging] = MinMassLen]_vars
    /\ [](\A k \in MassesAndLengths(viewer) :
             /\ params[k] \in MinMassLen..MaxMassLen
             /\ sol.ps[k] \in MinMassLen..MaxMassLen)

\* C5 witness: l1 was dragged to the left edge of its slider (mapped value 0),
\* and the solve after the release read 0.01.
C5_Witness ==
    /\ viewer = "double"
    /\ ev.kind = "up" /\ ev.drag = "l1"
    /\ params["l1"] = MinMassLen
    /\ sol.ps["l1"] = MinMassLen
    /\ Mapped(viewer, "l1", 50) = 0

\* C6: a solve that fails (fewer samples than the evaluation grid) leaves the
\* last good trajectory and position arrays in place.
C6_FailedSolveKeepsLastGood ==
    [][(ev'.kind = "up" /\ ~sol'.success) => (sol' = sol /\ pos' = pos)]_vars

\* C7: both implementations of the double-pendulum dynamics compute the same
\* denominator, (m1+m2)*l1^2*m2*l2^2 - (m2*l1*l2*cos(theta1-theta2))^2.
C7_SameDenominator ==
    dyn.done = {"export", "interactive"} =>
        /\ dyn.export = dyn.interactive
        /\ dyn.export = (dyn.m1 + dyn.m2) * dyn.l1 * dyn.l1 * dyn.m2 * dyn.l2 * dyn.l2
                        - (dyn.m2 * dyn.l1 * dyn.l2 * Cos(dyn.theta1 - dyn.theta2))
                          * (dyn.m2 * dyn.l1 * dyn.l2 * Cos(dyn.theta1 - dyn.theta2))

\* C8: a pointer-up received while nothing is dragged makes no update_simulation
\* call and leaves the frame index, the trajectory and the positions unchanged.
C8_SolveOnlyOnDragRelease ==
    [][(ev'.kind = "up" /\ dragging = None) =>
          (ev'.calls = 0 /\ frame' = frame /\ sol' = sol /\ pos' = pos)]_vars

\* C9: a pointer-move changes at most the parameter named by the current drag
\* and neither the trajectory nor the position arrays; without a drag it changes
\* no parameter; the trajectory and positions change only in update_simulation.
C9_MoveFrame ==
    /\ [][ev'.kind = "motion" =>
             /\ \A k \in Controls(viewer) : k # dragging => params'[k] = params[k]
             /\ dragging = None => params' = params
             /\ sol' = sol
             /\ pos' = pos]_vars
    /\ [][(sol' # sol \/ pos' # pos) => (ev'.kind = "up" /\ ev'.calls = 1)]_vars

\* C9 witness: a pointer-move has just changed l1, the dragged parameter, while
\* the trajectory in use is still the one solved with the old l1.
C9_Witness ==
    /\ viewer = "double"
    /\ ev.kind = "motion" /\ ev.drag = "l1"
    /\ params["l1"] # InitialParams(viewer)["l1"]
    /\ \A k \in Controls(viewer) \ {"l1"} : params[k] = InitialParams(viewer)[k]
    /\ sol.ps = Snapshot(viewer, InitialParams(viewer))
    /\ pos.len["l1"] = One

\* C10: whenever the main loop is about to index the position arrays with the
\* frame index, the frame index is smaller than their length.
C10_FrameIndexInRange ==
    /\ pc # "crashed"
    /\ (pc = "loop" /\ frame < NSamples) => frame < ArrayLen(pos)


====
